---- MODULE Spec2Model ----
(***************************************************************************)
(* A model of clippy (src/clippy/clippy.cpp): a console program that       *)
(* writes the bitmap on the clipboard to disk through the Windows Imaging  *)
(* Component.  main and WriteBitmapToDisk are one sequential program; pc   *)
(* is the position in it and there is one action per statement that calls  *)
(* the platform.  Every platform call may succeed or fail.                 *)
(***************************************************************************)
EXTENDS Integers, Sequences, FiniteSets

\* Largest max_width, source width and source height the model draws.
MaxDim == 13

\* Width of the significand of an IEEE-754 single (the type `float`).
MantissaBits == 24

VARIABLES
    pc,                         \* position in main / WriteBitmapToDisk
    max_width, write_full, encoder, filename, test_clipboard_has_bitmap,
    hBitmap,                    \* "NULL" or "HBITMAP"
    hr,                         \* main's hr: "UNINIT", "S_OK" or "E_FAIL"
    ipFactory, ipScaler, ipBitmap,          \* TRUE iff the pointer is not NULL
    width, height, output_width, output_height,
    wb,                         \* the frame of the running WriteBitmapToDisk call
    opens, closes,              \* successful OpenClipboard calls, CloseClipboard calls
    coInits, coUninits,         \* successful CoInitialize calls, CoUninitialize calls
    createLog, releaseLog,      \* imaging objects in creation order / in release order
    stdout,                     \* what was written to std::cout, in order
    scalerInit,                 \* arguments of each IWICBitmapScaler::Initialize call
    calls,                      \* arguments of each WriteBitmapToDisk call
    disk,                       \* images committed to disk, in order
    exitStatus                  \* -1 while running, else the value main returned

vars == <<pc, max_width, write_full, encoder, filename, test_clipboard_has_bitmap,
          hBitmap, hr, ipFactory, ipScaler, ipBitmap, width, height,
          output_width, output_height, wb, opens, closes, coInits, coUninits,
          createLog, releaseLog, stdout, scalerInit, calls, disk, exitStatus>>

inputs == <<max_width, write_full, encoder, filename, test_clipboard_has_bitmap>>
mainPtrs == <<ipFactory, ipScaler, ipBitmap>>
dims == <<width, height, output_width, output_height>>
clip == <<opens, closes>>
com == <<coInits, coUninits>>
logs == <<createLog, releaseLog>>
outs == <<scalerInit, calls, disk>>

----------------------------------------------------------------------------
\* HRESULT

FAILED(h) == h = "E_FAIL"
SUCCEEDED(h) == h = "S_OK"

\* What a platform call can return.
Outcomes == {"S_OK", "E_FAIL"}

\* RaiseError writes one message and the HRESULT to std::cout.
RaiseError(out, errorMessage, h) == Append(out, <<"error", errorMessage, h>>)

\* std::cout << text
CoutText(out, text) == Append(out, <<"text", text, "">>)

----------------------------------------------------------------------------
\* Single-precision arithmetic.  A float is <<m, e>> with value m * 2^e and
\* 2^23 <= m < 2^24, or <<0, 0>> for zero.

TwoP == 2 ^ MantissaBits
HalfP == 2 ^ (MantissaBits - 1)

\* Round num/den to the nearest integer, ties to even.
RoundHalfEven(num, den) ==
    LET q == num \div den
        r == num % den
    IN  IF 2 * r > den \/ (2 * r = den /\ q % 2 = 1) THEN q + 1 ELSE q

\* A significand that rounding carried up to 2^24 is renormalised.
Normalize(m, e) == IF m = TwoP THEN <<HalfP, e + 1>> ELSE <<m, e>>

RECURSIVE ScaleUp(_, _, _)
\* The least n with a * 2^n >= 2^23 * b.
ScaleUp(a, b, n) == IF a * (2 ^ n) >= HalfP * b THEN n ELSE ScaleUp(a, b, n + 1)

RECURSIVE ScaleDown(_, _)
\* The least k with x < 2^24 * 2^k.
ScaleDown(x, k) == IF x < TwoP * (2 ^ k) THEN k ELSE ScaleDown(x, k + 1)

\* (float)a / (float)b for integers a >= 0, b > 0 that a float holds exactly.
F32Div(a, b) ==
    IF a = 0 THEN <<0, 0>>
    ELSE LET n == ScaleUp(a, b, 0)
         IN  Normalize(RoundHalfEven(a * (2 ^ n), b), 0 - n)

\* f * (float)h for a float f and an integer h >= 0 that a float holds exactly.
F32Mul(f, h) ==
    IF f[1] = 0 \/ h = 0 THEN <<0, 0>>
    ELSE LET x == f[1] * h
             k == ScaleDown(x, 0)
         IN  Normalize(RoundHalfEven(x, 2 ^ k), f[2] + k)

\* (UINT)f rounding to the nearest integer instead.
FloatToUINTRounding(f) ==
    IF f[2] >= 0 THEN f[1] * (2 ^ f[2])
    ELSE RoundHalfEven(f[1], 2 ^ (0 - f[2]))

\* (UINT)f for a float f >= 0: the fraction is discarded.
FloatToUINT(f) ==
    IF f[2] >= 0 THEN f[1] * (2 ^ f[2])
    ELSE f[1] \div (2 ^ (0 - f[2]))

\* scaling_factor = (float)((float)max_width / (float)width)
ScalingFactor(mw, w) == F32Div(mw, w)

\* output_height = (UINT)(scaling_factor * height)
OutputHeight(mw, w, h) == FloatToUINT(F32Mul(ScalingFactor(mw, w), h))

----------------------------------------------------------------------------
\* Imaging objects are named by the routine that owns them and their kind.

MainObj(kind) == <<"main", kind>>
WbObj(kind) == <<wb.caller, kind>>

\* The frame of a WriteBitmapToDisk call: its parameters and its locals.
NoCall == [caller |-> "none", filename |-> "", encoderId |-> "", output_width |-> 0,
           output_height |-> 0, source |-> "", hr |-> "UNINIT",
           stream |-> "", frameSize |-> <<0, 0>>, frameSource |-> "",
           ipStream |-> FALSE, ipBitmapEncoder |-> FALSE, ipFrameEncoder |-> FALSE]

\* GUID encoderId = encoder == "png" ? GUID_ContainerFormatPng : GUID_ContainerFormatJpeg
EncoderId(enc) == IF enc = "png" THEN "GUID_ContainerFormatPng" ELSE "GUID_ContainerFormatJpeg"

\* The values the model draws for the command line and for the bitmap's size.
\* max_width is an int the program does not validate; the model draws 0 and
\* the positive values, with which every cast in ComputeSize is defined.
Encoders == {"png", "jpeg"}
MaxWidths == 0 .. MaxDim
Sizes == 1 .. MaxDim

Init ==
    /\ pc = "OpenClipboard"
    /\ max_width \in MaxWidths
    /\ write_full \in BOOLEAN
    /\ encoder \in Encoders
    /\ filename = "image"
    /\ test_clipboard_has_bitmap \in BOOLEAN
    /\ hBitmap = "UNINIT"
    /\ hr = "UNINIT"
    /\ ipFactory = FALSE /\ ipScaler = FALSE /\ ipBitmap = FALSE
    /\ width = 0 /\ height = 0 /\ output_width = 0 /\ output_height = 0
    /\ wb = NoCall
    /\ opens = 0 /\ closes = 0 /\ coInits = 0 /\ coUninits = 0
    /\ createLog = <<>> /\ releaseLog = <<>>
    /\ stdout = <<>>
    /\ scalerInit = <<>> /\ calls = <<>> /\ disk = <<>>
    /\ exitStatus = -1

----------------------------------------------------------------------------
\* main

\* if (!OpenClipboard(NULL)) { RaiseError(...); return 1; }
OpenClipboard ==
    /\ pc = "OpenClipboard"
    /\ \E ok \in BOOLEAN :
        IF ok
        THEN /\ opens' = opens + 1
             /\ pc' = "GetClipboardData"
             /\ UNCHANGED <<stdout, exitStatus>>
        ELSE /\ stdout' = RaiseError(stdout, "Failed to open the clipboard object", "E_FAIL")
             /\ exitStatus' = 1
             /\ pc' = "done"
             /\ UNCHANGED opens
    /\ UNCHANGED <<inputs, hBitmap, hr, mainPtrs, dims, wb, closes, com, logs, outs>>

\* hBitmap = GetClipboardData(CF_BITMAP): NULL when the clipboard holds no bitmap.
GetClipboardData ==
    /\ pc = "GetClipboardData"
    /\ \E h \in {"NULL", "HBITMAP"} : hBitmap' = h
    /\ pc' = "TestClipboardHasBitmap"
    /\ UNCHANGED <<inputs, hr, mainPtrs, dims, wb, clip, com, logs, stdout, outs, exitStatus>>

\* TestClipboardHasBitmap with the two answers exchanged.
TestClipboardHasBitmapInverted ==
    /\ pc = "TestClipboardHasBitmap"
    /\ IF test_clipboard_has_bitmap
       THEN /\ stdout' = CoutText(stdout, IF hBitmap = "NULL" THEN "TRUE" ELSE "FALSE")
            /\ exitStatus' = 0
            /\ pc' = "done"
       ELSE /\ pc' = "CheckBitmap"
            /\ UNCHANGED <<stdout, exitStatus>>
    /\ UNCHANGED <<inputs, hBitmap, hr, mainPtrs, dims, wb, clip, com, logs, outs>>

\* if (test_clipboard_has_bitmap) { cout << (hBitmap == NULL ? "FALSE" : "TRUE"); return 0; }
TestClipboardHasBitmap ==
    /\ pc = "TestClipboardHasBitmap"
    /\ IF test_clipboard_has_bitmap
       THEN /\ stdout' = CoutText(stdout, IF hBitmap = "NULL" THEN "FALSE" ELSE "TRUE")
            /\ exitStatus' = 0
            /\ pc' = "done"
       ELSE /\ pc' = "CheckBitmap"
            /\ UNCHANGED <<stdout, exitStatus>>
    /\ UNCHANGED <<inputs, hBitmap, hr, mainPtrs, dims, wb, clip, com, logs, outs>>

\* if (hBitmap == NULL) { RaiseError("No bitmap on clipboard", E_FAIL); goto FreeClipboard; }
\* hr itself is not assigned here.
CheckBitmap ==
    /\ pc = "CheckBitmap"
    /\ IF hBitmap = "NULL"
       THEN /\ stdout' = RaiseError(stdout, "No bitmap on clipboard", "E_FAIL")
            /\ pc' = "FreeClipboard"
       ELSE /\ pc' = "CoInitialize"
            /\ UNCHANGED stdout
    /\ UNCHANGED <<inputs, hBitmap, hr, mainPtrs, dims, wb, clip, com, logs, outs, exitStatus>>

\* hr = CoInitialize(NULL); on failure goto FreeClipboard
CoInitialize ==
    /\ pc = "CoInitialize"
    /\ \E r \in Outcomes :
        /\ hr' = r
        /\ IF FAILED(r)
           THEN /\ stdout' = RaiseError(stdout, "Failed to initialize COM: ", r)
                /\ pc' = "FreeClipboard"
                /\ UNCHANGED coInits
           ELSE /\ coInits' = coInits + 1
                /\ pc' = "CoCreateInstance"
                /\ UNCHANGED stdout
    /\ UNCHANGED <<inputs, hBitmap, mainPtrs, dims, wb, clip, coUninits, logs, outs, exitStatus>>

\* hr = CoCreateInstance(CLSID_WICImagingFactory, ..., &ipFactory); on failure goto FreeCOM
CoCreateInstance ==
    /\ pc = "CoCreateInstance"
    /\ \E r \in Outcomes :
        /\ hr' = r
        /\ IF FAILED(r)
           THEN /\ stdout' = RaiseError(stdout, "Failed to initialize WIC Imaging Factory object: ", r)
                /\ pc' = "FreeScaler"
                /\ UNCHANGED <<ipFactory, createLog>>
           ELSE /\ ipFactory' = TRUE
                /\ createLog' = Append(createLog, MainObj("factory"))
                /\ pc' = "CreateBitmapFromHBITMAP"
                /\ UNCHANGED stdout
    /\ UNCHANGED <<inputs, hBitmap, ipScaler, ipBitmap, dims, wb, clip, com, releaseLog,
                   outs, exitStatus>>

\* hr = ipFactory->CreateBitmapFromHBITMAP(hBitmap, ..., &ipBitmap); on failure goto FreeCOM
CreateBitmapFromHBITMAP ==
    /\ pc = "CreateBitmapFromHBITMAP"
    /\ \E r \in Outcomes :
        /\ hr' = r
        /\ IF FAILED(r)
           THEN /\ stdout' = RaiseError(stdout,
                     "Failed to construct a WIC Bitmap object from the HBITMAP from the clipboard: ", r)
                /\ pc' = "FreeScaler"
                /\ UNCHANGED <<ipBitmap, createLog>>
           ELSE /\ ipBitmap' = TRUE
                /\ createLog' = Append(createLog, MainObj("bitmap"))
                /\ pc' = "GetSize"
                /\ UNCHANGED stdout
    /\ UNCHANGED <<inputs, hBitmap, ipFactory, ipScaler, dims, wb, clip, com, releaseLog,
                   outs, exitStatus>>

\* hr = ipBitmap->GetSize(&width, &height); on failure goto FreeCOM
GetSize ==
    /\ pc = "GetSize"
    /\ \E r \in Outcomes :
        /\ hr' = r
        /\ IF FAILED(r)
           THEN /\ stdout' = RaiseError(stdout,
                     "Could not get the width and height of the WIC Bitmap object: ", r)
                /\ pc' = "FreeScaler"
                /\ UNCHANGED <<width, height>>
           ELSE /\ \E w \in Sizes, h \in Sizes : width' = w /\ height' = h
                /\ pc' = "WriteFull"
                /\ UNCHANGED stdout
    /\ UNCHANGED <<inputs, hBitmap, mainPtrs, output_width, output_height, wb, clip, com,
                   logs, outs, exitStatus>>

\* The frame a call of WriteBitmapToDisk starts with.
Call(caller, name, w, h, source) ==
    [NoCall EXCEPT !.caller = caller, !.filename = name, !.encoderId = EncoderId(encoder),
                   !.output_width = w, !.output_height = h, !.source = source]

\* WriteFull without the test of write_full.
WriteFullAlways ==
    /\ pc = "WriteFull"
    /\ wb' = Call("full", filename \o "_full." \o encoder, width, height, "ipBitmap")
    /\ calls' = Append(calls, wb')
    /\ pc' = "CreateEncoder"
    /\ UNCHANGED <<inputs, hBitmap, hr, mainPtrs, dims, clip, com, logs, stdout,
                   scalerInit, disk, exitStatus>>

\* if (write_full) hr = WriteBitmapToDisk(filename + "_full." + encoder, encoderId,
\*                                        width, height, ipFactory, ipBitmap);
WriteFull ==
    /\ pc = "WriteFull"
    /\ IF write_full
       THEN /\ wb' = Call("full", filename \o "_full." \o encoder, width, height, "ipBitmap")
            /\ calls' = Append(calls, wb')
            /\ pc' = "CreateEncoder"
       ELSE /\ pc' = "ComputeSize"
            /\ UNCHANGED <<wb, calls>>
    /\ UNCHANGED <<inputs, hBitmap, hr, mainPtrs, dims, clip, com, logs, stdout,
                   scalerInit, disk, exitStatus>>

\* The full-size call returned: hr is its result; on failure goto FreeCOM
WriteFullReturned ==
    /\ pc = "WriteFullReturned"
    /\ hr' = wb.hr
    /\ IF FAILED(wb.hr)
       THEN /\ stdout' = RaiseError(stdout, "Could not write full sized image to disk: ", wb.hr)
            /\ pc' = "FreeScaler"
       ELSE /\ pc' = "ComputeSize"
            /\ UNCHANGED stdout
    /\ wb' = NoCall
    /\ UNCHANGED <<inputs, hBitmap, mainPtrs, dims, clip, com, logs, outs, exitStatus>>

\* scaling_factor = (float)max_width / (float)width; output_width = max_width;
\* output_height = (UINT)(scaling_factor * height);
ComputeSize ==
    /\ pc = "ComputeSize"
    /\ output_width' = max_width
    /\ output_height' = OutputHeight(max_width, width, height)
    /\ pc' = "CreateBitmapScaler"
    /\ UNCHANGED <<inputs, hBitmap, hr, mainPtrs, width, height, wb, clip, com, logs,
                   stdout, outs, exitStatus>>

\* hr = ipFactory->CreateBitmapScaler(&ipScaler); on failure goto FreeCOM
CreateBitmapScaler ==
    /\ pc = "CreateBitmapScaler"
    /\ \E r \in Outcomes :
        /\ hr' = r
        /\ IF FAILED(r)
           THEN /\ stdout' = RaiseError(stdout, "Could not create a WIC Bitmap scaler object: ", r)
                /\ pc' = "FreeScaler"
                /\ UNCHANGED <<ipScaler, createLog>>
           ELSE /\ ipScaler' = TRUE
                /\ createLog' = Append(createLog, MainObj("scaler"))
                /\ pc' = "ScalerInitialize"
                /\ UNCHANGED stdout
    /\ UNCHANGED <<inputs, hBitmap, ipFactory, ipBitmap, dims, wb, clip, com, releaseLog,
                   outs, exitStatus>>

\* hr = ipScaler->Initialize(ipBitmap, output_width, output_height, ...); on failure goto FreeCOM
ScalerInitialize ==
    /\ pc = "ScalerInitialize"
    /\ scalerInit' = Append(scalerInit, <<"ipBitmap", output_width, output_height>>)
    /\ \E r \in Outcomes :
        /\ hr' = r
        /\ IF FAILED(r)
           THEN /\ stdout' = RaiseError(stdout,
                     "Could not initialize the WIC Bitmap scaler object InterpolationMode High Quality Cubic: ", r)
                /\ pc' = "FreeScaler"
           ELSE /\ pc' = "WriteResized"
                /\ UNCHANGED stdout
    /\ UNCHANGED <<inputs, hBitmap, mainPtrs, dims, wb, clip, com, logs, calls, disk, exitStatus>>

\* hr = WriteBitmapToDisk(filename + "." + encoder, encoderId, output_width, output_height,
\*                        ipFactory, ipScaler);
WriteResized ==
    /\ pc = "WriteResized"
    /\ wb' = Call("resized", filename \o "." \o encoder, output_width, output_height, "ipScaler")
    /\ calls' = Append(calls, wb')
    /\ pc' = "CreateEncoder"
    /\ UNCHANGED <<inputs, hBitmap, hr, mainPtrs, dims, clip, com, logs, stdout,
                   scalerInit, disk, exitStatus>>

\* WriteResizedReturned without main's own report of the failure.
WriteResizedReturnedSilent ==
    /\ pc = "WriteResizedReturned"
    /\ hr' = wb.hr
    /\ pc' = "FreeScaler"
    /\ wb' = NoCall
    /\ UNCHANGED <<inputs, hBitmap, mainPtrs, dims, clip, com, logs, stdout, outs, exitStatus>>

\* The resized call returned: hr is its result; both outcomes reach FreeCOM
WriteResizedReturned ==
    /\ pc = "WriteResizedReturned"
    /\ hr' = wb.hr
    /\ IF FAILED(wb.hr)
       THEN stdout' = RaiseError(stdout, "Could not write resized image to disk: ", wb.hr)
       ELSE UNCHANGED stdout
    /\ pc' = "FreeScaler"
    /\ wb' = NoCall
    /\ UNCHANGED <<inputs, hBitmap, mainPtrs, dims, clip, com, logs, outs, exitStatus>>

\* FreeCOM: if (ipScaler != NULL) ipScaler->Release();
FreeScaler ==
    /\ pc = "FreeScaler"
    /\ IF ipScaler
       THEN releaseLog' = Append(releaseLog, MainObj("scaler"))
       ELSE UNCHANGED releaseLog
    /\ pc' = "FreeFactory"
    /\ UNCHANGED <<inputs, hBitmap, hr, mainPtrs, dims, wb, clip, com, createLog, stdout,
                   outs, exitStatus>>

\* if (ipFactory != NULL) ipFactory->Release();
FreeFactory ==
    /\ pc = "FreeFactory"
    /\ IF ipFactory
       THEN releaseLog' = Append(releaseLog, MainObj("factory"))
       ELSE UNCHANGED releaseLog
    /\ pc' = "CoUninitialize"
    /\ UNCHANGED <<inputs, hBitmap, hr, mainPtrs, dims, wb, clip, com, createLog, stdout,
                   outs, exitStatus>>

\* CoUninitialize();
CoUninitialize ==
    /\ pc = "CoUninitialize"
    /\ coUninits' = coUninits + 1
    /\ pc' = "FreeClipboard"
    /\ UNCHANGED <<inputs, hBitmap, hr, mainPtrs, dims, wb, clip, coInits, logs, stdout,
                   outs, exitStatus>>

\* FreeClipboard: CloseClipboard();
FreeClipboard ==
    /\ pc = "FreeClipboard"
    /\ closes' = closes + 1
    /\ pc' = "Return"
    /\ UNCHANGED <<inputs, hBitmap, hr, mainPtrs, dims, wb, opens, com, logs, stdout,
                   outs, exitStatus>>

\* return SUCCEEDED(hr) ? 0 : 1;  hr that was never assigned has an indeterminate
\* value, so either result can come out.
Return ==
    /\ pc = "Return"
    /\ IF hr = "UNINIT"
       THEN \E s \in {0, 1} : exitStatus' = s
       ELSE exitStatus' = IF SUCCEEDED(hr) THEN 0 ELSE 1
    /\ pc' = "done"
    /\ UNCHANGED <<inputs, hBitmap, hr, mainPtrs, dims, wb, clip, com, logs, stdout, outs>>

----------------------------------------------------------------------------
\* WriteBitmapToDisk

mainVars == <<inputs, hBitmap, hr, mainPtrs, dims, clip, com, exitStatus>>

\* A call that creates an imaging object: on success the pointer is set and
\* the object exists; on failure the error is raised and control goes to FreeCOM.
WbCreate(at, next, ptr, kind, msg) ==
    /\ pc = at
    /\ \E r \in Outcomes :
        IF FAILED(r)
        THEN /\ wb' = [wb EXCEPT !.hr = r]
             /\ stdout' = RaiseError(stdout, msg, r)
             /\ pc' = "WbFreeStream"
             /\ UNCHANGED createLog
        ELSE /\ wb' = [wb EXCEPT !.hr = r, ![ptr] = TRUE]
             /\ createLog' = Append(createLog, WbObj(kind))
             /\ pc' = next
             /\ UNCHANGED stdout
    /\ UNCHANGED <<mainVars, releaseLog, outs>>

\* hr = ipFactory->CreateEncoder(encoderId, NULL, &ipBitmapEncoder);
CreateEncoder ==
    WbCreate("CreateEncoder", "CreateStream", "ipBitmapEncoder", "encoder",
             "Could not create the PNG or JPG encoder: ")

\* hr = ipFactory->CreateStream(&ipStream);
CreateStream ==
    WbCreate("CreateStream", "StreamInitializeFromFilename", "ipStream", "stream",
             "Could not create an IStream object: ")

\* hr = ipBitmapEncoder->CreateNewFrame(&ipFrameEncoder, NULL);
CreateNewFrame ==
    WbCreate("CreateNewFrame", "FrameInitialize", "ipFrameEncoder", "frame",
             "Failed to create a new frame encoder using the bitmap encoder: ")

\* hr = ipStream->InitializeFromFilename(s2ws(filename).c_str(), GENERIC_WRITE);
StreamInitializeFromFilename ==
    /\ pc = "StreamInitializeFromFilename"
    /\ \E r \in Outcomes :
        IF FAILED(r)
        THEN /\ wb' = [wb EXCEPT !.hr = r]
             /\ stdout' = RaiseError(stdout, "Failed to initialize a writeable stream: ", r)
             /\ pc' = "WbFreeStream"
        ELSE /\ wb' = [wb EXCEPT !.hr = r, !.stream = wb.filename]
             /\ pc' = "EncoderInitialize"
             /\ UNCHANGED stdout
    /\ UNCHANGED <<mainVars, logs, outs>>

\* hr = ipBitmapEncoder->Initialize(ipStream, WICBitmapEncoderNoCache);
EncoderInitialize ==
    /\ pc = "EncoderInitialize"
    /\ \E r \in Outcomes :
        IF FAILED(r)
        THEN /\ wb' = [wb EXCEPT !.hr = r]
             /\ stdout' = RaiseError(stdout, "Failed to initialize the bitmap encoder using the stream: ", r)
             /\ pc' = "WbFreeStream"
        ELSE /\ wb' = [wb EXCEPT !.hr = r]
             /\ pc' = "CreateNewFrame"
             /\ UNCHANGED stdout
    /\ UNCHANGED <<mainVars, logs, outs>>

\* hr = ipFrameEncoder->Initialize(NULL);
FrameInitialize ==
    /\ pc = "FrameInitialize"
    /\ \E r \in Outcomes :
        IF FAILED(r)
        THEN /\ wb' = [wb EXCEPT !.hr = r]
             /\ stdout' = RaiseError(stdout, "Failed to initialize the frame encoder: ", r)
             /\ pc' = "WbFreeStream"
        ELSE /\ wb' = [wb EXCEPT !.hr = r]
             /\ pc' = "SetSize"
             /\ UNCHANGED stdout
    /\ UNCHANGED <<mainVars, logs, outs>>

\* hr = ipFrameEncoder->SetSize(output_width, output_height);
SetSize ==
    /\ pc = "SetSize"
    /\ \E r \in Outcomes :
        IF FAILED(r)
        THEN /\ wb' = [wb EXCEPT !.hr = r]
             /\ stdout' = RaiseError(stdout, "Failed to set the output size for the frame encoder: ", r)
             /\ pc' = "WbFreeStream"
        ELSE /\ wb' = [wb EXCEPT !.hr = r, !.frameSize = <<wb.output_width, wb.output_height>>]
             /\ pc' = "SetPixelFormat"
             /\ UNCHANGED stdout
    /\ UNCHANGED <<mainVars, logs, outs>>

\* hr = ipFrameEncoder->SetPixelFormat(&formatGuid);
SetPixelFormat ==
    /\ pc = "SetPixelFormat"
    /\ \E r \in Outcomes :
        IF FAILED(r)
        THEN /\ wb' = [wb EXCEPT !.hr = r]
             /\ stdout' = RaiseError(stdout, "Failed to set the pixel format (WICPixelFormat24bppRGB) for the frame encoder: ", r)
             /\ pc' = "WbFreeStream"
        ELSE /\ wb' = [wb EXCEPT !.hr = r]
             /\ pc' = "WriteSource"
             /\ UNCHANGED stdout
    /\ UNCHANGED <<mainVars, logs, outs>>

\* hr = ipFrameEncoder->WriteSource(ipBitmapSource, NULL);
WriteSource ==
    /\ pc = "WriteSource"
    /\ \E r \in Outcomes :
        IF FAILED(r)
        THEN /\ wb' = [wb EXCEPT !.hr = r]
             /\ stdout' = RaiseError(stdout, "Failed to set the write source of the frame encoder to the bitmap scaler: ", r)
             /\ pc' = "WbFreeStream"
        ELSE /\ wb' = [wb EXCEPT !.hr = r, !.frameSource = wb.source]
             /\ pc' = "FrameCommit"
             /\ UNCHANGED stdout
    /\ UNCHANGED <<mainVars, logs, outs>>

\* hr = ipFrameEncoder->Commit();
FrameCommit ==
    /\ pc = "FrameCommit"
    /\ \E r \in Outcomes :
        IF FAILED(r)
        THEN /\ wb' = [wb EXCEPT !.hr = r]
             /\ stdout' = RaiseError(stdout, "Failed to commit the frame encoder: ", r)
             /\ pc' = "WbFreeStream"
        ELSE /\ wb' = [wb EXCEPT !.hr = r]
             /\ pc' = "EncoderCommit"
             /\ UNCHANGED stdout
    /\ UNCHANGED <<mainVars, logs, outs>>

\* hr = ipBitmapEncoder->Commit(); success or failure, FreeCOM comes next.
\* A successful commit leaves the finished image in the stream's file.
EncoderCommit ==
    /\ pc = "EncoderCommit"
    /\ \E r \in Outcomes :
        /\ wb' = [wb EXCEPT !.hr = r]
        /\ IF FAILED(r)
           THEN /\ stdout' = RaiseError(stdout, "Failed to commit the bitmap encoder: ", r)
                /\ UNCHANGED disk
           ELSE /\ disk' = Append(disk, [filename |-> wb.stream, encoderId |-> wb.encoderId,
                                         size |-> wb.frameSize, source |-> wb.frameSource])
                /\ UNCHANGED stdout
    /\ pc' = "WbFreeStream"
    /\ UNCHANGED <<mainVars, logs, scalerInit, calls>>

\* The order reverse to creation: frame encoder, stream, bitmap encoder.
WbFreeOrderReversed == <<"frame", "stream", "encoder">>

\* The order of the three releases under the FreeCOM label.
WbFreeOrder == <<"stream", "frame", "encoder">>

\* The local that points to an object of the kind.
WbPointer(kind) ==
    IF kind = "stream" THEN "ipStream"
    ELSE IF kind = "frame" THEN "ipFrameEncoder" ELSE "ipBitmapEncoder"

\* One step of FreeCOM: if (ptr != NULL) ptr->Release();
WbRelease(at, next, kind) ==
    /\ pc = at
    /\ IF wb[WbPointer(kind)]
       THEN releaseLog' = Append(releaseLog, WbObj(kind))
       ELSE UNCHANGED releaseLog
    /\ pc' = next
    /\ UNCHANGED <<mainVars, wb, createLog, stdout, outs>>

\* FreeCOM: if (ipStream != NULL) ipStream->Release();
WbFreeStream == WbRelease("WbFreeStream", "WbFreeFrame", WbFreeOrder[1])

\* if (ipFrameEncoder != NULL) ipFrameEncoder->Release();
WbFreeFrame == WbRelease("WbFreeFrame", "WbFreeEncoder", WbFreeOrder[2])

\* if (ipBitmapEncoder != NULL) ipBitmapEncoder->Release();
WbFreeEncoder == WbRelease("WbFreeEncoder", "WbReturn", WbFreeOrder[3])

\* return hr; back to the statement after the call in main
WbReturn ==
    /\ pc = "WbReturn"
    /\ pc' = IF wb.caller = "full" THEN "WriteFullReturned" ELSE "WriteResizedReturned"
    /\ UNCHANGED <<mainVars, wb, logs, stdout, outs>>

WriteBitmapToDisk ==
    \/ CreateEncoder \/ CreateStream \/ StreamInitializeFromFilename \/ EncoderInitialize
    \/ CreateNewFrame \/ FrameInitialize \/ SetSize \/ SetPixelFormat \/ WriteSource
    \/ FrameCommit \/ EncoderCommit
    \/ WbFreeStream \/ WbFreeFrame \/ WbFreeEncoder \/ WbReturn

main ==
    \/ OpenClipboard \/ GetClipboardData \/ TestClipboardHasBitmap \/ CheckBitmap
    \/ CoInitialize \/ CoCreateInstance \/ CreateBitmapFromHBITMAP \/ GetSize
    \/ WriteFull \/ WriteFullReturned \/ ComputeSize \/ CreateBitmapScaler
    \/ ScalerInitialize \/ WriteResized \/ WriteResizedReturned
    \/ FreeScaler \/ FreeFactory \/ CoUninitialize \/ FreeClipboard \/ Return

Next == main \/ WriteBitmapToDisk

Spec == Init /\ [][Next]_vars

Finished == pc = "done"
----------------------------------------------------------------------------
\* Observations the properties are stated over.

IsError(entry) == entry[1] = "error"
Errors == SelectSeq(stdout, IsError)
Occurrences(log, x) == Cardinality({i \in 1 .. Len(log) : log[i] = x})
CreateIndex(obj) == CHOOSE k \in 1 .. Len(createLog) : createLog[k] = obj
NonProbe == ~test_clipboard_has_bitmap
FullName == filename \o "_full." \o encoder
ResizedName == filename \o "." \o encoder
IsResizedCall(c) == c.caller = "resized"
ResizedCalls == SelectSeq(calls, IsResizedCall)

\* C1: when main has returned, CloseClipboard was called once if OpenClipboard
\* succeeded and not at all if it failed.
C1_ClipboardClosedOnce == Finished => closes = opens

\* C2: when main has returned, every imaging object that was created has been
\* released exactly once.
C2_EveryObjectReleasedOnce ==
    Finished => \A i \in 1 .. Len(createLog) : Occurrences(releaseLog, createLog[i]) = 1

\* C3 as stated: of two objects of the same routine, the one released first
\* was created last.
C3_ReverseCreationOrder ==
    \A i, j \in 1 .. Len(releaseLog) :
        (i < j /\ releaseLog[i][1] = releaseLog[j][1])
            => CreateIndex(releaseLog[i]) > CreateIndex(releaseLog[j])

\* The order in which each routine's cleanup releases.
ReleaseRank(obj) ==
    IF obj[1] = "main"
    THEN (IF obj[2] = "scaler" THEN 1 ELSE IF obj[2] = "factory" THEN 2 ELSE 0)
    ELSE (IF obj[2] = "stream" THEN 1 ELSE IF obj[2] = "frame" THEN 2
          ELSE IF obj[2] = "encoder" THEN 3 ELSE 0)

\* C3 amended: only created objects are released; WriteBitmapToDisk releases
\* stream, then frame encoder, then bitmap encoder, and main releases scaler,
\* then factory.
C3_FixedReleaseOrder ==
    /\ \A i \in 1 .. Len(releaseLog) :
        /\ ReleaseRank(releaseLog[i]) > 0
        /\ \E k \in 1 .. Len(createLog) : createLog[k] = releaseLog[i]
    /\ \A i, j \in 1 .. Len(releaseLog) :
        (i < j /\ releaseLog[i][1] = releaseLog[j][1])
            => ReleaseRank(releaseLog[i]) < ReleaseRank(releaseLog[j])

\* A run that released all three objects of the resized write and both of main's.
C3_Witness ==
    /\ Finished
    /\ \A o \in {<<"resized", "stream">>, <<"resized", "frame">>, <<"resized", "encoder">>,
                 <<"main", "scaler">>, <<"main", "factory">>} : Occurrences(releaseLog, o) = 1

\* C4: a non-probe run that opened the clipboard and found no bitmap reports
\* "No bitmap on clipboard" and returns 1.
C4_NoBitmapExitsOne ==
    (Finished /\ opens = 1 /\ hBitmap = "NULL" /\ NonProbe)
        => /\ exitStatus = 1
           /\ \E i \in 1 .. Len(Errors) : Errors[i][2] = "No bitmap on clipboard"

\* C5: a probe run that opened the clipboard never initialises the toolkit,
\* scales or writes, and ends having printed exactly TRUE (bitmap present) or
\* FALSE (none), with exit status 0.
C5_Probe ==
    (test_clipboard_has_bitmap /\ opens = 1)
        => /\ coInits = 0 /\ createLog = <<>> /\ scalerInit = <<>>
           /\ calls = <<>> /\ disk = <<>>
           /\ Finished =>
                /\ stdout = << <<"text", IF hBitmap = "HBITMAP" THEN "TRUE" ELSE "FALSE", "">> >>
                /\ exitStatus = 0

\* A finished probe run that found a bitmap.
C5_Witness ==
    Finished /\ test_clipboard_has_bitmap /\ opens = 1 /\ hBitmap = "HBITMAP"

\* The writes the command line asks for are on disk.
RequestedWritesDone ==
    /\ \E i \in 1 .. Len(disk) : disk[i].filename = ResizedName
    /\ write_full => \E i \in 1 .. Len(disk) : disk[i].filename = FullName

\* C6: a non-probe run returns 0 exactly if every requested write completed,
\* and 1 otherwise; nothing runs after the stage that reported a failure.
C6_ExitStatus ==
    (Finished /\ NonProbe)
        => /\ exitStatus \in {0, 1}
           /\ exitStatus = 0 <=> RequestedWritesDone
           /\ Errors # <<>> => (exitStatus = 1 /\ IsError(stdout[Len(stdout)]))

\* round(h * mw / w), halves up.
RoundedHeight(mw, w, h) == (2 * h * mw + w) \div (2 * w)

\* The sizes handed to the scaler and to the resized write are <<ow, oh>>.
ResizedSizes(ow, oh) ==
    /\ \A i \in 1 .. Len(scalerInit) : scalerInit[i] = <<"ipBitmap", ow, oh>>
    /\ \A i \in 1 .. Len(ResizedCalls) :
        /\ ResizedCalls[i].output_width = ow
        /\ ResizedCalls[i].output_height = oh

\* Whether a size has reached the scaler.
Scaled == scalerInit # <<>>

\* C7 as stated: for positive max_width the scaler and the resized write get
\* width max_width and height round(height * max_width / width).
C7_RoundedHeight ==
    (max_width > 0 /\ Scaled) => ResizedSizes(max_width, RoundedHeight(max_width, width, height))

\* n <= f < n + 1 for a float f >= 0: n is f without its fraction.
IsTruncationOf(n, f) ==
    IF f[2] >= 0 THEN n = f[1] * (2 ^ f[2])
    ELSE n * (2 ^ (0 - f[2])) <= f[1] /\ f[1] < (n + 1) * (2 ^ (0 - f[2]))

\* C7 amended: for positive max_width the scaler and the resized write get
\* width max_width and the height that is the single-precision product
\* ((float)max_width / (float)width) * height with its fraction discarded.
C7_TruncatedHeight ==
    (max_width > 0 /\ Scaled)
        => /\ ResizedSizes(output_width, output_height)
           /\ output_width = max_width
           /\ IsTruncationOf(output_height, F32Mul(F32Div(max_width, width), height))

\* A resized write at a size where discarding the fraction and rounding differ.
C7_Witness ==
    /\ Finished /\ max_width > 0 /\ ResizedCalls # <<>>
    /\ output_height # RoundedHeight(max_width, width, height)

\* A run that went through every stage without reporting an error.
Successful == Finished /\ NonProbe /\ exitStatus = 0 /\ Errors = <<>>

FullImage == [filename |-> FullName, encoderId |-> EncoderId(encoder),
              size |-> <<width, height>>, source |-> "ipBitmap"]
ResizedImage == [filename |-> ResizedName, encoderId |-> EncoderId(encoder),
                 size |-> <<output_width, output_height>>, source |-> "ipScaler"]
CalledNames == [i \in 1 .. Len(calls) |-> calls[i].filename]

\* C8: a successful non-probe run with write_full wrote the full-size image
\* from the unscaled source and then the resized one from the scaler; without
\* write_full it wrote the resized image only, and no run without write_full
\* ever starts a write of the _full file.
C8_Writes ==
    /\ Successful =>
        IF write_full
        THEN disk = <<FullImage, ResizedImage>> /\ CalledNames = <<FullName, ResizedName>>
        ELSE disk = <<ResizedImage>> /\ CalledNames = <<ResizedName>>
    /\ ~write_full => \A i \in 1 .. Len(calls) : calls[i].filename # FullName

\* A successful run that wrote both files.
C8_Witness == Successful /\ write_full /\ Len(disk) = 2

\* C9 as stated: a run that returns 1 has reported exactly one error.
C9_OneErrorPerFailure == (Finished /\ exitStatus = 1) => Len(Errors) = 1

\* The messages main adds when a write failed.
WriteFailedMessages == {"Could not write full sized image to disk: ",
                        "Could not write resized image to disk: "}

\* The messages of WriteBitmapToDisk's own steps.
WbMessages == {"Could not create the PNG or JPG encoder: ",
               "Could not create an IStream object: ",
               "Failed to initialize a writeable stream: ",
               "Failed to initialize the bitmap encoder using the stream: ",
               "Failed to create a new frame encoder using the bitmap encoder: ",
               "Failed to initialize the frame encoder: ",
               "Failed to set the output size for the frame encoder: ",
               "Failed to set the pixel format (WICPixelFormat24bppRGB) for the frame encoder: ",
               "Failed to set the write source of the frame encoder to the bitmap scaler: ",
               "Failed to commit the frame encoder: ",
               "Failed to commit the bitmap encoder: "}

\* C9 amended: a run that returns 1 has reported one error when the failing
\* stage is main's own, and two when the failure is inside WriteBitmapToDisk:
\* the failing step's message, then main's "Could not write ... image to disk"
\* with the same status code; no run reports more.
C9_ErrorsPerFailure ==
    Finished =>
        /\ exitStatus = 1 => Len(Errors) \in {1, 2}
        /\ Len(Errors) <= 2
        /\ Len(Errors) = 1 => Errors[1][2] \notin (WbMessages \cup WriteFailedMessages)
        /\ Len(Errors) = 2 => /\ Errors[1][2] \in WbMessages
                              /\ Errors[2][2] \in WriteFailedMessages
                              /\ Errors[2][3] = Errors[1][3]

\* A run whose resized write failed inside WriteBitmapToDisk.
C9_Witness ==
    /\ Finished /\ exitStatus = 1 /\ Len(Errors) = 2
    /\ Errors[2][2] = "Could not write resized image to disk: "

\* C10: every width and height handed to the scaler or to WriteBitmapToDisk is
\* greater than 0.
C10_PositiveSizes ==
    /\ \A i \in 1 .. Len(scalerInit) : scalerInit[i][2] > 0 /\ scalerInit[i][3] > 0
    /\ \A i \in 1 .. Len(calls) : calls[i].output_width > 0 /\ calls[i].output_height > 0

====
